---- MODULE Spec2Model ----
(***************************************************************************)
(* The OpenAI driver of aiswarm/driver-openai: one OpenAIDriver            *)
(* (src/driver.openai.js) with the streaming Run (src/run.js) it creates.  *)
(* JavaScript runs the code on one thread: every action below is the code  *)
(* executed between two awaits (or between an await and the end of a       *)
(* handler), listeners called by emit() included.                          *)
(***************************************************************************)
EXTENDS Naturals, Sequences, FiniteSets

\* ----------------------------------------------------------------- bounds
MaxMsg == 3      \* messages the host passes to instruct(); ids 1..MaxMsg in call order
MaxRuns == 3     \* Run objects the driver may create
MaxOut == 2      \* output messages the runs may open (comms.createMessage)
MaxDepth == 2    \* nesting of Run.#process (one level per tool-output round trip)
MaxCleanup == 1  \* #cleanup calls (remove(), process exit, SIGINT)

Msgs == 1..MaxMsg
Runs == 1..MaxRuns
Outs == 1..MaxOut
Undefined == 0   \* JavaScript's undefined: what Array.shift() gives on an empty array
NoRun == 0       \* this.#run is undefined or null

VARIABLES
    ctor,                \* position of #asyncConstructor
    assistant,           \* this.#assistant is set
    thread,              \* this.#thread is set
    keepAssistant,       \* config.driver.keepAssistant
    keepThread,          \* config.driver.keepThread
    available,           \* this.#available
    messageQueue,        \* this.#messageQueue
    messagesProcessing,  \* this.#messagesProcessing
    run,                 \* this.#run: NoRun or the Run in the slot
    status,              \* message.status of every host message
    nInstructed,         \* host messages passed to instruct() so far
    inst,                \* one record per instruct() call that created a Run
    attached,            \* Run.addMessage calls in order: <<run, message>>
    rejected,            \* some instruct() promise was rejected
    loops,               \* per instruct() call: the Run.start() it invoked
    emitted,             \* per Run: the terminal events it emitted, in order
    messages,            \* per Run: this.#messages (output ids)
    outStatus,           \* status of every output message created so far
    sink,                \* messages handed to api.comms.emit, in order
    cleanup,             \* the #cleanup calls: position, remote calls made
    pausedIdle,          \* history: paused by a pause() call made on an idle driver
    paused               \* history: pause() was called and resume() was not since

\* A Run on its own, fed by its stream, with listeners that record its events.
VARIABLES
    startPc,             \* position of the Run.start() call
    process,             \* the nested Run.#process calls, innermost last
    delivered,           \* the signals the streams have delivered, in order
    runMessages,         \* this.#messages: the output messages collected
    contents,            \* content of every output message created
    events,              \* the events the Run emitted, with their payload
    runStatus,           \* this.#status
    submitted,           \* the tool-output batches submitted
    executed,            \* the skill executions made, in order
    cancels              \* runs.cancel requests issued

loneVars == <<startPc, process, delivered, runMessages, contents, events,
              runStatus, submitted, executed, cancels>>

driverVars == <<ctor, assistant, thread, keepAssistant, keepThread, available, messageQueue, messagesProcessing, run, status,
                nInstructed, inst, attached, rejected, loops, emitted, messages,
                outStatus, sink, cleanup, pausedIdle, paused>>

\* The calls of Run.addMessage on its own, and what they sent to the thread.
VARIABLES
    addCalls,            \* Run.addMessage calls made
    requests             \* threads.messages.create requests sent, in order

threadVars == <<addCalls, requests>>

\* The Run of the polling revision on its own (src/unnamed/part_004).
VARIABLES
    pollStarts,          \* start() calls made
    creating,            \* start() calls suspended at `await runs.create`
    timers,              \* the setInterval timers that are active
    interval,            \* this.#interval: NoTimer or the timer set last
    pollers,             \* the #poll calls made: position of each
    pollEvents,          \* the events the Run emitted, with their message
    pollStatus           \* this.#status

pollVars == <<pollStarts, creating, timers, interval, pollers, pollEvents, pollStatus>>

vars == <<loneVars, driverVars, threadVars, pollVars>>

\* ------------------------------------------------------------ small helpers
Range(s) == {s[i] : i \in 1..Len(s)}

SetStatus(st, ms, v) == [m \in DOMAIN st |-> IF m \in ms THEN v ELSE st[m]]

NoLoop == [run |-> NoRun, pc |-> "none", frames |-> <<>>]

\* The driver's fields and the host objects its synchronous code touches,
\* as one value, so that a listener can call instruct() inside an emit().
S == [queue |-> messageQueue, proc |-> messagesProcessing, run |-> run,
      available |-> available, status |-> status, inst |-> inst,
      attached |-> attached, rejected |-> rejected,
      outStatus |-> outStatus, sink |-> sink]

Commit(s) ==
    /\ messageQueue' = s.queue
    /\ messagesProcessing' = s.proc
    /\ run' = s.run
    /\ available' = s.available
    /\ status' = s.status
    /\ inst' = s.inst
    /\ attached' = s.attached
    /\ rejected' = s.rejected
    /\ outStatus' = s.outStatus
    /\ sink' = s.sink

\* Run.status: #status is initialised to 'queued' and never assigned.
RunStatus(r) == "queued"

\* A status getter that looks at the queue first: C19 does not hold of it.
DriverStatusOf_QueueFirst(s) ==
    IF Len(s.queue) > 0 THEN "queued"
    ELSE IF s.run = NoRun THEN "idle"
    ELSE IF s.available THEN "busy"
    ELSE "paused"

\* OpenAIDriver.status
DriverStatusOf(s) ==
    IF s.run = NoRun
    THEN IF Len(s.queue) > 0 THEN "queued" ELSE "idle"
    ELSE IF RunStatus(s.run) = "failed" THEN "error"
    ELSE IF s.available THEN "busy"
    ELSE "paused"

DriverStatus == DriverStatusOf(S)

\* ------------------------------------------------------ OpenAIDriver.instruct
\* An instruct() call ends with a rejected promise (a TypeError, or a failed
\* remote call).
Throw(s, c) == [s EXCEPT !.inst[c].pc = "threw", !.rejected = TRUE]

\* The attach loop from its head to the next await, run by instruct() call c.
\* this.#run is read when the call is made, not when the Run was created.
AttachNext(s, c) ==
    IF Len(s.queue) > 0
    THEN LET m == Head(s.queue)
             s1 == [s EXCEPT !.queue = Tail(@)]
         IN  IF m = Undefined
             THEN Throw(s1, c)
             ELSE LET s2 == [s1 EXCEPT !.status[m] = "processing",
                                       !.proc = Append(@, m)]
                  IN  IF s2.run = NoRun
                      THEN Throw(s2, c)
                      ELSE [s2 EXCEPT !.attached = Append(@, <<s2.run, m>>),
                                      !.inst[c].pc = "loop"]
    ELSE IF s.run = NoRun
         THEN Throw(s, c)
         ELSE [s EXCEPT !.attached = Append(@, <<s.run, s.inst[c].message>>),
                        !.inst[c].pc = "last"]

\* A guard that forgets pause(): C4 does not hold of it.
MustQueue_IgnoresPause(s) == s.run # NoRun

\* The guard of instruct(): queue the message instead of running it.
MustQueue(s) == s.run # NoRun \/ ~s.available

\* instruct(message) up to its first await.  byResume records in the new
\* Run's entry that the caller is resume() on a driver paused while idle.
InstructSync(s, message, byResume) ==
    IF MustQueue(s)
    THEN LET s1 == [s EXCEPT !.queue = Append(@, message)]
         IN  IF message = Undefined
             THEN [s1 EXCEPT !.rejected = TRUE]
             ELSE [s1 EXCEPT !.status[message] = "queued"]
    ELSE IF message = Undefined
    THEN [s EXCEPT !.rejected = TRUE]
    ELSE LET s1 == [s EXCEPT !.status[message] = "processing",
                             !.proc = Append(@, message)]
         IN  IF ~thread
             THEN [s1 EXCEPT !.rejected = TRUE]
             ELSE LET c == Len(s1.inst) + 1
                      s2 == [s1 EXCEPT
                               !.run = c,
                               !.inst = Append(@, [message |-> message,
                                                   q0 |-> s.queue,
                                                   resumed |-> byResume,
                                                   pc |-> "new"])]
                  IN  AttachNext(s2, c)

\* `if (this.#messageQueue.length) this.instruct(this.#messageQueue.shift())`
Drain(s, byResume) ==
    IF Len(s.queue) > 0
    THEN InstructSync([s EXCEPT !.queue = Tail(@)], Head(s.queue), byResume)
    ELSE s

\* --------------------------------------- listeners registered by instruct()
\* r is the Run the listener was registered on; its closure holds the
\* message that instruct() call was given.
\* An error listener that does not drain the queue: C9 does not hold of it.
OnRunError_NoDrain(s, r) ==
    [s EXCEPT !.run = NoRun,
              !.status = SetStatus(@, {s.inst[r].message} \cup Range(s.proc), "error"),
              !.proc = <<>>]

OnRunError(s, r) ==
    LET s1 == [s EXCEPT !.run = NoRun,
                        !.status = SetStatus(@, {s.inst[r].message} \cup Range(s.proc),
                                             "error"),
                        !.proc = <<>>]
    IN  Drain(s1, FALSE)

\* A complete listener that does not drain the queue: C8 does not hold of it.
OnRunComplete_NoDrain(s, r, out) ==
    [s EXCEPT !.outStatus = SetStatus(@, Range(out), "complete"),
              !.sink = @ \o out,
              !.status = SetStatus(@, Range(s.proc), "complete"),
              !.proc = <<>>,
              !.run = NoRun]

OnRunComplete(s, r, out) ==
    LET s1 == [s EXCEPT !.outStatus = SetStatus(@, Range(out), "complete"),
                        !.sink = @ \o out,
                        !.status = SetStatus(@, Range(s.proc), "complete"),
                        !.proc = <<>>,
                        !.run = NoRun]
    IN  Drain(s1, FALSE)

\* A cancelled listener that drains the queue: C10 does not hold of it.
OnRunCancelled_Drains(s, r) ==
    Drain([s EXCEPT !.status = SetStatus(@, Range(s.proc), "cancelled"),
                    !.proc = <<>>,
                    !.run = NoRun], FALSE)

OnRunCancelled(s, r) ==
    [s EXCEPT !.status = SetStatus(@, Range(s.proc), "cancelled"),
              !.proc = <<>>,
              !.run = NoRun]

\* new Run(...): the field initialisers; start() was not called.
LoneInit ==
    /\ startPc = "new"
    /\ process = <<>>
    /\ delivered = <<>>
    /\ runMessages = <<>>
    /\ contents = <<>>
    /\ events = <<>>
    /\ runStatus = "queued"
    /\ submitted = <<>>
    /\ executed = <<>>
    /\ cancels = 0

ThreadInit == addCalls = 0 /\ requests = <<>>

NoTimer == 0     \* this.#interval is undefined

\* new Run(...) of the polling revision: the field initialisers.
PollInit ==
    /\ pollStarts = 0
    /\ creating = 0
    /\ timers = {}
    /\ interval = NoTimer
    /\ pollers = <<>>
    /\ pollEvents = <<>>
    /\ pollStatus = "queued"

LoneUnchanged == UNCHANGED loneVars /\ UNCHANGED <<threadVars, pollVars>>

\* ------------------------------------------------------------------- Init
FieldsInit ==
    /\ ctor = "assistant"
    /\ assistant = FALSE
    /\ thread = FALSE
    /\ available = FALSE
    /\ messageQueue = <<>>
    /\ messagesProcessing = <<>>
    /\ run = NoRun
    /\ status = [m \in Msgs |-> "new"]
    /\ nInstructed = 0
    /\ inst = <<>>
    /\ attached = <<>>
    /\ rejected = FALSE
    /\ loops = [c \in Runs |-> NoLoop]
    /\ emitted = [r \in Runs |-> <<>>]
    /\ messages = [r \in Runs |-> <<>>]
    /\ outStatus = <<>>
    /\ sink = <<>>
    /\ cleanup = <<>>
    /\ pausedIdle = FALSE
    /\ paused = FALSE

\* DEFAULT_CONFIG: keepAssistant: false, keepThread: false
DriverInit ==
    /\ keepAssistant = FALSE
    /\ keepThread = FALSE
    /\ FieldsInit

Init == DriverInit /\ LoneInit /\ ThreadInit /\ PollInit

RunUnchanged == UNCHANGED <<loops, emitted, messages>>
HostUnchanged == UNCHANGED <<nInstructed, cleanup, pausedIdle, paused>>
ConfigUnchanged == UNCHANGED <<keepAssistant, keepThread>>
CtorUnchanged ==
    UNCHANGED <<ctor, assistant, thread>> /\ ConfigUnchanged /\ LoneUnchanged

\* Commit a driver state unless it needs more Run objects than the model has.
CommitBounded(s) == Len(s.inst) <= MaxRuns /\ Commit(s)

\* ------------------------------------------------- #asyncConstructor steps
CreateAssistant ==
    /\ ctor = "assistant"
    /\ \E ok \in BOOLEAN :
          /\ ctor' = IF ok THEN "thread" ELSE "failed"
          /\ assistant' = ok
    /\ UNCHANGED thread /\ ConfigUnchanged /\ LoneUnchanged
    /\ UNCHANGED <<available, messageQueue, messagesProcessing, run, status, inst,
                   attached, rejected, outStatus, sink>>
    /\ RunUnchanged /\ HostUnchanged

CreateThread ==
    /\ ctor = "thread"
    /\ \E ok \in BOOLEAN :
          IF ok
          THEN /\ thread' = TRUE
               /\ available' = TRUE
               /\ pausedIdle' = FALSE
               /\ ctor' = IF Len(messageQueue) > 0 THEN "tick" ELSE "done"
          ELSE /\ ctor' = "failed"
               /\ UNCHANGED <<thread, available, pausedIdle>>
    /\ UNCHANGED assistant /\ ConfigUnchanged /\ LoneUnchanged
    /\ UNCHANGED <<messageQueue, messagesProcessing, run, status, inst,
                   attached, rejected, outStatus, sink>>
    /\ RunUnchanged /\ UNCHANGED <<nInstructed, cleanup, paused>>

\* The process.nextTick callback: this.instruct(this.#messageQueue.shift())
Tick ==
    /\ ctor = "tick"
    /\ ctor' = "done"
    /\ CommitBounded(IF Len(messageQueue) > 0
                     THEN InstructSync([S EXCEPT !.queue = Tail(@)],
                                       Head(messageQueue), FALSE)
                     ELSE InstructSync(S, Undefined, FALSE))
    /\ UNCHANGED <<assistant, thread>> /\ ConfigUnchanged /\ LoneUnchanged
    /\ RunUnchanged /\ HostUnchanged

\* ------------------------------------------------------------ host calls
Instruct ==
    /\ nInstructed < MaxMsg
    /\ nInstructed' = nInstructed + 1
    /\ CommitBounded(InstructSync(S, nInstructed + 1, FALSE))
    /\ UNCHANGED <<cleanup, pausedIdle, paused>>
    /\ CtorUnchanged /\ RunUnchanged

Pause ==
    /\ available' = FALSE
    /\ pausedIdle' = IF available THEN ctor = "done" /\ DriverStatus = "idle"
                                  ELSE pausedIdle
    /\ paused' = TRUE
    /\ UNCHANGED <<messageQueue, messagesProcessing, run, status, inst,
                   attached, rejected, outStatus, sink>>
    /\ CtorUnchanged /\ RunUnchanged /\ UNCHANGED <<nInstructed, cleanup>>

Resume ==
    /\ CommitBounded(Drain([S EXCEPT !.available = TRUE], ~available /\ pausedIdle))
    /\ pausedIdle' = FALSE
    /\ paused' = FALSE
    /\ CtorUnchanged /\ RunUnchanged /\ UNCHANGED <<nInstructed, cleanup>>

\* ------------------------------------------- instruct() after each await
\* The awaited Run.addMessage rejects (threads.messages.create failed):
\* instruct() call c ends there, nothing in instruct() catches it.
AddMessageRejects(c) == Commit(Throw(S, c)) /\ UNCHANGED loops

\* The completion of a remote call can be dispatched: Node runs a pending
\* process.nextTick callback before any I/O callback.
IoDue == ctor # "tick"

\* instruct() call c is suspended at an `await this.#run.addMessage(...)`.
AddMessageAwaited(c) ==
    IoDue /\ c \in 1..Len(inst) /\ inst[c].pc \in {"loop", "last"}

\* The awaited addMessage resolves: the attach loop goes on, and after the
\* last addMessage comes this.#run.start().
AddMessageResolves(c) ==
    IF inst[c].pc = "loop"
    THEN Commit(AttachNext(S, c)) /\ UNCHANGED loops
    ELSE IF run = NoRun
    THEN Commit(Throw(S, c)) /\ UNCHANGED loops
    ELSE /\ Commit([S EXCEPT !.inst[c].pc = "done"])
         /\ loops' = [loops EXCEPT ![c] = [run |-> run, pc |-> "creating",
                                           frames |-> <<>>]]

\* `await this.#run.addMessage(...)` returns (or the remote call fails) in
\* instruct() call c.
AddMessageReturn(c) ==
    /\ AddMessageAwaited(c)
    /\ \E ok \in BOOLEAN :
          IF ~ok
          THEN AddMessageRejects(c)
          ELSE AddMessageResolves(c)
    /\ UNCHANGED <<emitted, messages>>
    /\ CtorUnchanged /\ HostUnchanged

\* ------------------------------------------------------------- Run.start
NewFrame == [cur |-> 0, fin |-> FALSE]

\* `this.#stream = await runs.create(...)` returns, or rejects: start() is
\* not awaited by instruct(), so the rejection is handled by nobody.
RunsCreateReturn(c) ==
    /\ IoDue
    /\ loops[c].pc = "creating"
    /\ \E ok \in BOOLEAN :
          loops' = [loops EXCEPT ![c].pc = IF ok THEN "running" ELSE "ended",
                                 ![c].frames = IF ok THEN <<NewFrame>> ELSE <<>>]
    /\ UNCHANGED <<available, messageQueue, messagesProcessing, run, status, inst,
                   attached, rejected, outStatus, sink, emitted, messages>>
    /\ CtorUnchanged /\ HostUnchanged

\* ----------------------------------------------------------- Run.#process
Running(c) == IoDue /\ loops[c].pc = "running"
Depth(c) == Len(loops[c].frames)
Top(c) == loops[c].frames[Depth(c)]
Target(c) == loops[c].run

\* The innermost #process call of loop c returns.
Return(c) ==
    [loops EXCEPT ![c].frames = SubSeq(@, 1, Depth(c) - 1),
                  ![c].pc = IF Depth(c) = 1 THEN "ended" ELSE @]

\* The stream has delivered the signal that ends the remote job's turn on it.
Finish(c) == [loops EXCEPT ![c].frames[Depth(c)].fin = TRUE]

DriverUnchanged ==
    UNCHANGED <<available, messageQueue, messagesProcessing, run, status, inst,
                attached, rejected, sink>>

\* case 'thread.message.created'
MessageCreated(c) ==
    /\ Running(c) /\ ~Top(c).fin
    /\ Len(outStatus) < MaxOut
    /\ outStatus' = Append(outStatus, "created")
    /\ messages' = [messages EXCEPT ![Target(c)] = Append(@, Len(outStatus) + 1)]
    /\ loops' = [loops EXCEPT ![c].frames[Depth(c)].cur = Len(outStatus) + 1]
    /\ UNCHANGED emitted
    /\ DriverUnchanged /\ CtorUnchanged /\ HostUnchanged

\* case 'thread.message.completed'
MessageCompleted(c) ==
    /\ Running(c) /\ ~Top(c).fin
    /\ loops' = [loops EXCEPT ![c].frames[Depth(c)].cur = 0]
    /\ UNCHANGED <<emitted, messages, outStatus>>
    /\ DriverUnchanged /\ CtorUnchanged /\ HostUnchanged

\* Run.#onComplete: emit('complete', this.#messages), then this.#messages = []
EmitComplete(c) ==
    /\ CommitBounded(OnRunComplete(S, Target(c), messages[Target(c)]))
    /\ emitted' = [emitted EXCEPT ![Target(c)] = Append(@, "complete")]
    /\ messages' = [messages EXCEPT ![Target(c)] = <<>>]

\* case 'thread.run.completed'
RunCompleted(c) ==
    /\ Running(c) /\ ~Top(c).fin
    /\ EmitComplete(c)
    /\ loops' = Finish(c)
    /\ CtorUnchanged /\ HostUnchanged

\* case 'end'
StreamEnd(c) ==
    /\ Running(c)
    /\ EmitComplete(c)
    /\ loops' = Return(c)
    /\ CtorUnchanged /\ HostUnchanged

\* case 'thread.run.cancelled'
RunCancelled(c) ==
    /\ Running(c) /\ ~Top(c).fin
    /\ Commit(OnRunCancelled(S, Target(c)))
    /\ emitted' = [emitted EXCEPT ![Target(c)] = Append(@, "cancelled")]
    /\ loops' = Finish(c)
    /\ UNCHANGED messages
    /\ CtorUnchanged /\ HostUnchanged

\* case 'thread.run.failed', 'thread.run.expired', 'error'
RunFailed(c) ==
    /\ Running(c) /\ ~Top(c).fin
    /\ CommitBounded(OnRunError(S, Target(c)))
    /\ emitted' = [emitted EXCEPT ![Target(c)] = Append(@, "error")]
    /\ loops' = Return(c)
    /\ UNCHANGED messages
    /\ CtorUnchanged /\ HostUnchanged

\* case 'thread.run.requires_action': with an unknown action kind or no tool
\* call #onActionRequired returns at once; otherwise it submits the outputs
\* and awaits a nested #process on the new stream.
RequiresAction(c) ==
    /\ Running(c) /\ ~Top(c).fin
    /\ \E submit \in BOOLEAN :
          IF submit
          THEN /\ Depth(c) < MaxDepth
               /\ loops' = [Finish(c) EXCEPT ![c].frames = Append(@, NewFrame)]
          ELSE loops' = Finish(c)
    /\ UNCHANGED <<emitted, messages, outStatus>>
    /\ DriverUnchanged /\ CtorUnchanged /\ HostUnchanged

\* The stream is exhausted after its last signal: the for-await loop ends.
StreamDone(c) ==
    /\ Running(c) /\ Top(c).fin
    /\ loops' = Return(c)
    /\ UNCHANGED <<emitted, messages, outStatus>>
    /\ DriverUnchanged /\ CtorUnchanged /\ HostUnchanged

\* The stream's iterator throws (transport or parse error): every nested
\* #process and start() reject; nothing catches it.
StreamThrows(c) ==
    /\ Running(c)
    /\ loops' = [loops EXCEPT ![c].pc = "ended", ![c].frames = <<>>]
    /\ UNCHANGED <<emitted, messages, outStatus>>
    /\ DriverUnchanged /\ CtorUnchanged /\ HostUnchanged

\* ------------------------------------------------- remove() and #cleanup
\* #cleanup from the thread deletion on, up to its next await.
CleanupFromThread ==
    IF ~keepThread
    THEN IF thread THEN "thread" ELSE "threw"
    ELSE IF ~keepAssistant
    THEN IF assistant THEN "assistant" ELSE "threw"
    ELSE "end"

CleanupFromAssistant ==
    IF ~keepAssistant
    THEN IF assistant THEN "assistant" ELSE "threw"
    ELSE "end"

\* #cleanup call i is suspended at an await.
CleanupAwaits(i, pc) == IoDue /\ i \in 1..Len(cleanup) /\ cleanup[i].pc = pc

\* The remote call awaited by #cleanup call i returns (ok) or throws, and the
\* call goes on to position pc, up to its next await; at the end of #cleanup
\* comes `this.#run = null`, and a TypeError ends it before that.
CleanupGoto(i, ok, pc) ==
    /\ cleanup' = [cleanup EXCEPT
                      ![i].calls = Append(@, [call |-> cleanup[i].pc, ok |-> ok]),
                      ![i].pc = pc]
    /\ run' = IF pc = "end" THEN NoRun ELSE run

CleanupFrame ==
    /\ UNCHANGED <<available, messageQueue, messagesProcessing, status, inst,
                   attached, rejected, outStatus, sink, nInstructed, pausedIdle,
                   paused>>
    /\ CtorUnchanged /\ RunUnchanged

\* remove(), and the process 'exit' and 'SIGINT' hooks: #cleanup up to its
\* first await.  The call notes what the session had when it was made.
Remove ==
    /\ Len(cleanup) < MaxCleanup
    /\ LET pc == IF run # NoRun THEN "stop" ELSE CleanupFromThread
       IN  /\ cleanup' = Append(cleanup, [pc |-> pc, calls |-> <<>>,
                                          thread |-> thread, assistant |-> assistant])
           /\ run' = IF pc = "end" THEN NoRun ELSE run
    /\ CleanupFrame

\* `await this.#run.stop()` returns or throws; either way cleanup goes on.
CleanupStopped(i) ==
    /\ CleanupAwaits(i, "stop")
    /\ \E ok \in BOOLEAN : CleanupGoto(i, ok, CleanupFromThread)
    /\ CleanupFrame

\* `await threads.del(...)` returns or throws.
CleanupThreadDeleted(i) ==
    /\ CleanupAwaits(i, "thread")
    /\ \E ok \in BOOLEAN : CleanupGoto(i, ok, CleanupFromAssistant)
    /\ CleanupFrame

\* `await assistants.del(...)` returns or throws.
CleanupAssistantDeleted(i) ==
    /\ CleanupAwaits(i, "assistant")
    /\ \E ok \in BOOLEAN : CleanupGoto(i, ok, "end")
    /\ CleanupFrame

\* The driver under instruct(), pause() and resume() with the run-level
\* signals of its Runs.
Next ==
    \/ CreateAssistant
    \/ CreateThread
    \/ Tick
    \/ Instruct
    \/ Pause
    \/ Resume
    \/ \E c \in Runs : AddMessageReturn(c)
    \/ \E c \in Runs : RunsCreateReturn(c)
    \/ \E c \in Runs : MessageCreated(c)
    \/ \E c \in Runs : MessageCompleted(c)
    \/ \E c \in Runs : RunCompleted(c)
    \/ \E c \in Runs : StreamEnd(c)
    \/ \E c \in Runs : RunCancelled(c)
    \/ \E c \in Runs : RunFailed(c)
    \/ \E c \in Runs : StreamDone(c)
    \/ \E c \in Runs : StreamThrows(c)

Spec == Init /\ [][Next]_vars

\* The same with tool-output round trips and teardown.
NextAll ==
    \/ Next
    \/ \E c \in Runs : RequiresAction(c)
    \/ Remove
    \/ \E i \in 1..MaxCleanup : CleanupStopped(i)
    \/ \E i \in 1..MaxCleanup : CleanupThreadDeleted(i)
    \/ \E i \in 1..MaxCleanup : CleanupAssistantDeleted(i)

SpecAll == Init /\ [][NextAll]_vars

\* ------------------------------------------------------------------ claims
Created(r) == r <= Len(inst)

\* A Run that was created and has delivered no terminal event yet.
Active(r) == Created(r) /\ emitted[r] = <<>>

\* C1: at any instant the driver has at most one active Run, whatever the
\* interleaving of instruct(), pause(), resume() and Run lifecycle events.
C1_AtMostOneActiveRun == Cardinality({r \in Runs : Active(r)}) <= 1

\* C3: over its lifetime a Run emits at most one of error, complete and
\* cancelled.
C3_AtMostOneTerminalEvent == \A r \in Runs : Len(emitted[r]) <= 1

\* C5: until the assistant and the thread are created, every message passed
\* to instruct() is in the queue with status queued, no instruct() call was
\* rejected and no Run exists.
SessionCreated == ctor \in {"tick", "done"}

C5_QueuedUntilSessionCreated ==
    ~SessionCreated =>
        /\ Len(inst) = 0
        /\ ~rejected
        /\ messageQueue = [i \in 1..nInstructed |-> i]
        /\ \A m \in 1..nInstructed : status[m] = "queued"

\* A step in which the Run in the slot emits complete, error, cancelled.
SlotRunCompletes ==
    \E c \in Runs : (RunCompleted(c) \/ StreamEnd(c)) /\ Target(c) = run
SlotRunFails == \E c \in Runs : RunFailed(c) /\ Target(c) = run
SlotRunCancelled == \E c \in Runs : RunCancelled(c) /\ Target(c) = run

\* C2: when the active Run completes, the messages queued meanwhile are
\* attached to the next Run in call order: the first addMessage call on the
\* next Run is for the head of the queue, the oldest queued message.
C2_QueuedAttachedInCallOrder ==
    [][(SlotRunCompletes /\ Len(inst') > Len(inst))
          => attached' = Append(attached, <<run', Head(messageQueue)>>)]_vars

\* C4: instruct(message) with a Run in the slot or with the driver paused
\* appends the message to the queue, sets it queued, and creates no Run,
\* leaves the slot alone and calls no addMessage.
C4_InstructQueuesWhenBusyOrPaused ==
    [][(Instruct /\ (run # NoRun \/ ~available))
          => /\ messageQueue' = Append(messageQueue, nInstructed')
             /\ status' = [status EXCEPT ![nInstructed'] = "queued"]
             /\ inst' = inst
             /\ run' = run
             /\ attached' = attached
             /\ messagesProcessing' = messagesProcessing
             /\ loops' = loops]_vars

C4_Witness ==
    /\ Len(messageQueue) > 0
    /\ messageQueue[Len(messageQueue)] = nInstructed
    /\ status[nInstructed] = "queued"
    /\ run # NoRun
    /\ available

\* C7: resume() creates a Run only when the queue is non-empty and no Run is
\* in the slot; with a Run in the slot it creates none and leaves the queue
\* as it was.
C7_ResumeWhileRunActive ==
    [][Resume => /\ (Len(inst') > Len(inst)
                        => run = NoRun /\ Len(messageQueue) > 0)
                 /\ (run # NoRun
                        => inst' = inst /\ messageQueue' = messageQueue)]_vars

\* What `if (queue.length) this.instruct(queue.shift())` is seen to do from
\* a state with an empty slot: the head of the queue q becomes the message
\* of a new Run when the driver is available (and the head is a message),
\* and goes back to the tail of the queue when the driver is paused.
NextRunStarted(q) ==
    /\ Len(inst') = Len(inst) + 1
    /\ run' = Len(inst')
    /\ inst'[run'].message = Head(q)
    /\ status'[Head(q)] = "processing"
    /\ Head(q) \in Range(messagesProcessing')

NoRunStarted == inst' = inst /\ run' = NoRun /\ messagesProcessing' = <<>>

DrainAttempted(q) ==
    IF Len(q) = 0
    THEN NoRunStarted /\ messageQueue' = q
    ELSE IF available /\ Head(q) # Undefined
    THEN NextRunStarted(q)
    ELSE /\ NoRunStarted
         /\ messageQueue' = IF available THEN Tail(q) ELSE Append(Tail(q), Head(q))

\* The messages of the Run that just ended are no longer in flight.
NoneLeftProcessing(ms) ==
    \A m \in ms : m \notin Range(messagesProcessing') /\ status'[m] # "processing"

\* The reaction to complete(messages) up to the draining of the queue.
CompleteHandled ==
    /\ \A o \in Range(messages[run]) : outStatus'[o] = "complete"
    /\ sink' = sink \o messages[run]
    /\ \A m \in Range(messagesProcessing) : status'[m] = "complete"
    /\ NoneLeftProcessing(Range(messagesProcessing))
    /\ run' # run

C9_ErrorMarksAndDrains ==
    [][SlotRunFails
          => /\ \A m \in {inst[run].message} \cup Range(messagesProcessing) :
                    status'[m] = "error"
             /\ NoneLeftProcessing({inst[run].message} \cup Range(messagesProcessing))
             /\ run' # run
             /\ DrainAttempted(messageQueue)]_vars

C9_Witness ==
    \E r \in Runs :
        /\ Created(r) /\ r > 1 /\ run = r
        /\ emitted[r - 1] = <<"error">>
        /\ status[inst[r - 1].message] = "error"
        /\ inst[r - 1].q0 # <<>>
        /\ \A m \in Range(inst[r - 1].q0) : status[m] = "error"

PausedNoRun == ctor = "done" /\ ~available /\ run = NoRun

\* The messages a Run must be given: the one its instruct() call was given
\* and those that were in the queue then.
Batch(r) == {inst[r].message} \cup Range(inst[r].q0)

AttachedTo(r) == {m \in Msgs : <<r, m>> \in Range(attached)}

\* C6: on a paused driver without a Run, instruct() queues the message,
\* creates no Run, and the driver's status is queued; resume() then creates
\* exactly one Run, for the head of the queue, and when that Run is started
\* every message that was in the queue has been attached to it.
C6_InstructWhilePaused ==
    (Instruct /\ PausedNoRun)
        => /\ messageQueue' = Append(messageQueue, nInstructed')
           /\ status'[nInstructed'] = "queued"
           /\ inst' = inst /\ run' = NoRun
           /\ DriverStatus' = "queued"

C6_ResumeStartsOneRun ==
    (Resume /\ PausedNoRun /\ Len(messageQueue) > 0 /\ Head(messageQueue) # Undefined)
        => /\ NextRunStarted(messageQueue)
           /\ inst'[run'].q0 = Tail(messageQueue)
           /\ available'

C6_StartedRunHasItsBatch ==
    \A r \in Runs :
        Created(r) /\ inst[r].resumed /\ inst[r].pc = "done"
            => loops[r].run = r /\ Batch(r) \subseteq AttachedTo(r)

C6_PauseThenResume ==
    /\ [][C6_InstructWhilePaused /\ C6_ResumeStartsOneRun]_vars
    /\ []C6_StartedRunHasItsBatch

\* C11: every start() call that has ended, normally or with an exception
\* (runs.create rejected, the stream's iterator threw, the job reported
\* failed or expired), has left its Run with a terminal event.
C11_RunErrorsBecomeErrorEvents ==
    \A c \in Runs : loops[c].pc = "ended" => emitted[Target(c)] # <<>>

\* A step in which an addMessage call on the Run in the slot fails.
AddMessageFailsOnSlotRun ==
    \E c \in Runs : AddMessageReturn(c) /\ AddMessageRejects(c) /\ run # NoRun

\* C12: when addMessage fails while instruct() is attaching messages, the
\* messages in flight become error and the Run that was never started is
\* taken out of the slot.
C12_AddMessageFailureFreesSlot ==
    [][AddMessageFailsOnSlotRun
          => /\ \A m \in Range(messagesProcessing) : status'[m] = "error"
             /\ run' # run]_vars

\* ------------------------------------------------------------- liveness
\* The driver when every remote call succeeds and the host only calls
\* instruct(), on a driver whose session is created: no pause(), no
\* remove(), no cancellation, no transport error.
CreateAssistantOk == CreateAssistant /\ assistant'
CreateThreadOk == CreateThread /\ thread'
AddMessageOk(c) == AddMessageReturn(c) /\ AddMessageResolves(c)
RunsCreateOk(c) == RunsCreateReturn(c) /\ loops'[c].pc = "running"
InstructReady == ctor = "done" /\ Instruct

\* The remote job of loop c reports completed, failed or expired, and its
\* stream ends.
JobReports(c) == RunCompleted(c) \/ RunFailed(c) \/ StreamEnd(c) \/ StreamDone(c)

NextLive ==
    \/ CreateAssistantOk
    \/ CreateThreadOk
    \/ InstructReady
    \/ \E c \in Runs : AddMessageOk(c)
    \/ \E c \in Runs : RunsCreateOk(c)
    \/ \E c \in Runs : MessageCreated(c)
    \/ \E c \in Runs : MessageCompleted(c)
    \/ \E c \in Runs : JobReports(c)

\* Fair scheduling: every pending promise is settled, every callback that
\* is due runs, every job reports.
FairLive ==
    /\ WF_vars(CreateAssistantOk)
    /\ WF_vars(CreateThreadOk)
    /\ \A c \in Runs : /\ WF_vars(AddMessageOk(c))
                       /\ WF_vars(RunsCreateOk(c))
                       /\ WF_vars(JobReports(c))

SpecLive == Init /\ [][NextLive]_vars /\ FairLive

Settled(m) ==
    /\ \E r \in Runs : <<r, m>> \in Range(attached)
    /\ status[m] \in {"complete", "error"}

\* C13: every message passed to instruct() is eventually attached to a Run
\* and complete or error, and a non-empty queue is eventually empty.
C13_EveryMessageSettles ==
    /\ \A m \in Msgs : (nInstructed >= m) ~> Settled(m)
    /\ (messageQueue # <<>>) ~> (messageQueue = <<>>)

\* ===================================================== a Run on its own
MaxSig == 5      \* signals the streams of the Run deliver
MaxCalls == 2    \* tool calls in one requires_action signal
MaxStop == 1     \* stop() calls

Chars == {"a", "b"}

\* A function tool call: its skill returns a result, its skill throws, or
\* its arguments are not JSON.
CallKinds == {"ok", "throws", "badjson"}
CallLists == UNION {[1..n -> CallKinds] : n \in 0..MaxCalls}

\* payload.data.required_action: its type and its tool calls.
Actions ==
    {<<"other", <<>>>>} \cup {<<"submit_tool_outputs", cs>> : cs \in CallLists}

\* A payload of the stream: payload.event, and of payload.data the delta
\* text, the required_action type and its tool calls.
Sig(e, v, cs) == [event |-> e, value |-> v, calls |-> cs]

DriverIdle == UNCHANGED driverVars /\ UNCHANGED <<threadVars, pollVars>>

\* Run.start() is called.
LoneStart ==
    /\ startPc = "new"
    /\ startPc' = "creating"
    /\ UNCHANGED <<process, delivered, runMessages, contents, events, runStatus,
                   submitted, executed, cancels>>
    /\ DriverIdle

\* `this.#stream = await runs.create(...)` resolves or rejects.
LoneCreated ==
    /\ startPc = "creating"
    /\ \E ok \in BOOLEAN :
          /\ startPc' = IF ok THEN "running" ELSE "rejected"
          /\ process' = IF ok THEN <<NewFrame>> ELSE <<>>
    /\ UNCHANGED <<delivered, runMessages, contents, events, runStatus,
                   submitted, executed, cancels>>
    /\ DriverIdle

LoneTop == process[Len(process)]

\* The for-await of the innermost #process call receives one more payload.
Deliverable == startPc = "running" /\ Len(delivered) < MaxSig
Deliver(s) == delivered' = Append(delivered, s)

\* `return` in the innermost #process call; the outermost one ends start().
LoneReturn ==
    /\ process' = SubSeq(process, 1, Len(process) - 1)
    /\ startPc' = IF Len(process) = 1 THEN "returned" ELSE startPc

\* The innermost stream has delivered its run-level final signal.
LoneFinish == process' = [process EXCEPT ![Len(process)].fin = TRUE]

\* An exception leaves every nested #process call and rejects start().
LoneRejects == startPc' = "rejected" /\ process' = <<>>

\* case 'thread.run.queued', 'thread.run.in_progress', ...: traced, ignored.
CaseIgnored ==
    /\ Deliverable /\ ~LoneTop.fin
    /\ Deliver(Sig("thread.run.in_progress", "", <<>>))
    /\ UNCHANGED <<startPc, process, runMessages, contents, events, runStatus,
                   submitted, executed, cancels>>
    /\ DriverIdle

\* case 'thread.message.created'
CaseMessageCreated ==
    /\ Deliverable /\ ~LoneTop.fin
    /\ Deliver(Sig("thread.message.created", "", <<>>))
    /\ contents' = Append(contents, <<>>)
    /\ runMessages' = Append(runMessages, Len(contents) + 1)
    /\ process' = [process EXCEPT ![Len(process)].cur = Len(contents) + 1]
    /\ UNCHANGED <<startPc, events, runStatus, submitted, executed, cancels>>
    /\ DriverIdle

\* A delta case that opens a message when there is none: C15 does not hold
\* of it.
CaseMessageDelta_OpensMessage ==
    /\ Deliverable /\ ~LoneTop.fin
    /\ \E ch \in Chars :
          /\ Deliver(Sig("thread.message.delta", ch, <<>>))
          /\ contents' = IF LoneTop.cur = 0
                          THEN Append(contents, <<ch>>)
                          ELSE [contents EXCEPT ![LoneTop.cur] = Append(@, ch)]
          /\ runMessages' = IF LoneTop.cur = 0
                             THEN Append(runMessages, Len(contents) + 1)
                             ELSE runMessages
    /\ UNCHANGED <<startPc, process, events, runStatus, submitted, executed, cancels>>
    /\ DriverIdle

\* A delta case that puts the text in front of the content: C14 does not
\* hold of it.
CaseMessageDelta_Prepends ==
    /\ Deliverable /\ ~LoneTop.fin
    /\ \E ch \in Chars :
          /\ Deliver(Sig("thread.message.delta", ch, <<>>))
          /\ contents' = IF LoneTop.cur = 0
                          THEN contents
                          ELSE [contents EXCEPT ![LoneTop.cur] = <<ch>> \o @]
    /\ UNCHANGED <<startPc, process, runMessages, events, runStatus,
                   submitted, executed, cancels>>
    /\ DriverIdle

\* case 'thread.message.delta': without a current message the delta is
\* logged and dropped, otherwise its text is appended to that message.
CaseMessageDelta ==
    /\ Deliverable /\ ~LoneTop.fin
    /\ \E ch \in Chars :
          /\ Deliver(Sig("thread.message.delta", ch, <<>>))
          /\ contents' = IF LoneTop.cur = 0
                          THEN contents
                          ELSE [contents EXCEPT ![LoneTop.cur] = Append(@, ch)]
    /\ UNCHANGED <<startPc, process, runMessages, events, runStatus,
                   submitted, executed, cancels>>
    /\ DriverIdle

\* case 'thread.message.completed'
CaseMessageCompleted ==
    /\ Deliverable /\ ~LoneTop.fin
    /\ Deliver(Sig("thread.message.completed", "", <<>>))
    /\ process' = [process EXCEPT ![Len(process)].cur = 0]
    /\ UNCHANGED <<startPc, runMessages, contents, events, runStatus,
                   submitted, executed, cancels>>
    /\ DriverIdle

\* Run.#onComplete
LoneOnComplete ==
    /\ events' = Append(events, [name |-> "complete", messages |-> runMessages])
    /\ runMessages' = <<>>

\* case 'thread.run.completed': #onComplete, break
CaseRunCompleted ==
    /\ Deliverable /\ ~LoneTop.fin
    /\ Deliver(Sig("thread.run.completed", "", <<>>))
    /\ LoneOnComplete
    /\ LoneFinish
    /\ UNCHANGED <<startPc, contents, runStatus, submitted, executed, cancels>>
    /\ DriverIdle

\* case 'thread.run.cancelled': #onCancel, break
CaseRunCancelled ==
    /\ Deliverable /\ ~LoneTop.fin
    /\ Deliver(Sig("thread.run.cancelled", "", <<>>))
    /\ events' = Append(events, [name |-> "cancelled", messages |-> <<>>])
    /\ LoneFinish
    /\ UNCHANGED <<startPc, runMessages, contents, runStatus, submitted,
                   executed, cancels>>
    /\ DriverIdle

\* case 'thread.run.failed', 'thread.run.expired', 'error': #onError, return
CaseRunFailed ==
    /\ Deliverable /\ ~LoneTop.fin
    /\ Deliver(Sig("thread.run.failed", "", <<>>))
    /\ events' = Append(events, [name |-> "error", messages |-> <<>>])
    /\ LoneReturn
    /\ UNCHANGED <<runMessages, contents, runStatus, submitted, executed, cancels>>
    /\ DriverIdle

\* case 'end': #onComplete, return
CaseEnd ==
    /\ Deliverable
    /\ Deliver(Sig("end", "", <<>>))
    /\ LoneOnComplete
    /\ LoneReturn
    /\ UNCHANGED <<contents, runStatus, submitted, executed, cancels>>
    /\ DriverIdle

\* A #handleFunction that reports a throwing skill as a result: C16 does not
\* hold of it.
HandleFunction_HidesError(i, k) == [tool_call_id |-> i, output |-> "result"]

\* Run.#handleFunction for tool call i of kind k, once its arguments have
\* been parsed: the result of the skill, or {error: e.message} if it throws.
HandleFunction(i, k) ==
    [tool_call_id |-> i, output |-> IF k = "ok" THEN "result" ELSE "error"]

\* JSON.parse(functionProperties.arguments) is outside the try: the first
\* call whose arguments do not parse ends #onActionRequired (0: there is none).
FirstUnparsed(cs) ==
    IF \E i \in 1..Len(cs) : cs[i] = "badjson"
    THEN CHOOSE i \in 1..Len(cs) :
            cs[i] = "badjson" /\ \A j \in 1..(i - 1) : cs[j] # "badjson"
    ELSE 0

\* The tool_outputs array built by the loop over the tool calls.
ToolOutputs(cs) == [i \in 1..Len(cs) |-> HandleFunction(i, cs[i])]

\* The skills.execute calls the loop makes.
Executions(cs) ==
    [i \in 1..(IF FirstUnparsed(cs) = 0 THEN Len(cs) ELSE FirstUnparsed(cs) - 1) |-> i]

\* case 'thread.run.requires_action': Run.#onActionRequired
CaseRequiresAction ==
    /\ Deliverable /\ ~LoneTop.fin
    /\ \E a \in Actions :
          LET type == a[1]
              cs == a[2]
          IN
          /\ Deliver(Sig("thread.run.requires_action", type, cs))
          /\ IF type # "submit_tool_outputs" \/ Len(cs) = 0
             THEN /\ LoneFinish
                  /\ UNCHANGED <<startPc, submitted, executed>>
             ELSE /\ executed' = executed \o Executions(cs)
                  /\ IF FirstUnparsed(cs) # 0
                     THEN LoneRejects /\ UNCHANGED submitted
                     ELSE /\ Len(process) < MaxDepth
                          /\ submitted' = Append(submitted, ToolOutputs(cs))
                          /\ process' = Append([process EXCEPT ![Len(process)].fin = TRUE],
                                                NewFrame)
                          /\ UNCHANGED startPc
    /\ UNCHANGED <<runMessages, contents, events, runStatus, cancels>>
    /\ DriverIdle

\* The stream is exhausted after its last signal: the for-await loop ends.
LoneStreamDone ==
    /\ startPc = "running" /\ LoneTop.fin
    /\ LoneReturn
    /\ UNCHANGED <<delivered, runMessages, contents, events, runStatus,
                   submitted, executed, cancels>>
    /\ DriverIdle

\* The stream's iterator throws (transport or parse error).
LoneStreamThrows ==
    /\ startPc = "running"
    /\ LoneRejects
    /\ UNCHANGED <<delivered, runMessages, contents, events, runStatus,
                   submitted, executed, cancels>>
    /\ DriverIdle

\* A stop() that emits cancelled itself: C20 does not hold of it.
LoneStop_EmitsCancelled ==
    /\ cancels < MaxStop
    /\ cancels' = cancels + 1
    /\ events' = Append(events, [name |-> "cancelled", messages |-> <<>>])
    /\ UNCHANGED <<startPc, process, delivered, runMessages, contents,
                   runStatus, submitted, executed>>
    /\ DriverIdle

\* Run.stop(): `await runs.cancel(this.#threadId, this.#runId)`
LoneStop ==
    /\ cancels < MaxStop
    /\ cancels' = cancels + 1
    /\ UNCHANGED <<startPc, process, delivered, runMessages, contents, events,
                   runStatus, submitted, executed>>
    /\ DriverIdle

NextLone ==
    \/ LoneStart
    \/ LoneCreated
    \/ CaseIgnored
    \/ CaseMessageCreated
    \/ CaseMessageDelta
    \/ CaseMessageCompleted
    \/ CaseRunCompleted
    \/ CaseRunCancelled
    \/ CaseRunFailed
    \/ CaseEnd
    \/ CaseRequiresAction
    \/ LoneStreamDone
    \/ LoneStreamThrows
    \/ LoneStop

SpecLone == Init /\ [][NextLone]_vars

\* ------------------------------------------------- claims about the Run
\* The output a stream h asks for when, from signal i on, it is made of
\* messages (message-created, deltas, message-completed), possibly with
\* ignored signals, and ends with run-completed: one content per
\* message-created, each the concatenation of its deltas.  ok is FALSE for
\* a stream of another form.
RECURSIVE ParseFrom(_, _, _, _)
ParseFrom(h, i, open, out) ==
    IF i > Len(h)
    THEN [ok |-> FALSE, out |-> out]
    ELSE LET e == h[i].event
         IN  CASE e = "thread.message.created" ->
                    IF open THEN [ok |-> FALSE, out |-> out]
                    ELSE ParseFrom(h, i + 1, TRUE, Append(out, <<>>))
               [] e = "thread.message.delta" ->
                    IF ~open THEN [ok |-> FALSE, out |-> out]
                    ELSE ParseFrom(h, i + 1, TRUE,
                                   [out EXCEPT ![Len(out)] = Append(@, h[i].value)])
               [] e = "thread.message.completed" ->
                    IF ~open THEN [ok |-> FALSE, out |-> out]
                    ELSE ParseFrom(h, i + 1, FALSE, out)
               [] e = "thread.run.in_progress" -> ParseFrom(h, i + 1, open, out)
               [] e = "thread.run.completed" ->
                    [ok |-> ~open /\ i = Len(h), out |-> out]
               [] OTHER -> [ok |-> FALSE, out |-> out]

Parsed == ParseFrom(delivered, 1, FALSE, <<>>)

\* C14: after a stream of well-formed messages that ends with
\* run-completed, the Run has emitted exactly one event, complete, whose
\* messages are one per message-created signal, in signal order, each with
\* the concatenation of its deltas as content.
C14_CompleteCarriesConcatenatedDeltas ==
    Parsed.ok =>
        /\ Len(events) = 1
        /\ events[1].name = "complete"
        /\ [i \in 1..Len(events[1].messages) |-> contents[events[1].messages[i]]]
              = Parsed.out

C14_Witness ==
    /\ Parsed.ok
    /\ Parsed.out = << <<"a", "b">> >>
    /\ Len(delivered) = 5
    /\ events = <<[name |-> "complete", messages |-> <<1>>]>>
    /\ contents = << <<"a", "b">> >>

\* The position of the last signal e in the stream h (0: there is none).
LastIndex(h, e) ==
    IF \E i \in 1..Len(h) : h[i].event = e
    THEN CHOOSE i \in 1..Len(h) :
            h[i].event = e /\ \A j \in (i + 1)..Len(h) : h[j].event # e
    ELSE 0

\* By the signals delivered, an output message is open: the last
\* message-created has not been followed by a message-completed.
MessageOpen ==
    LastIndex(delivered, "thread.message.created")
        > LastIndex(delivered, "thread.message.completed")

\* C15: a delta delivered while no output message is open creates no
\* message, changes no content, emits no event, and leaves the Run reading
\* its stream.
C15_StrayDeltaDropped ==
    [][(CaseMessageDelta /\ ~MessageOpen)
          => /\ contents' = contents
             /\ runMessages' = runMessages
             /\ events' = events
             /\ startPc' = "running"
             /\ process' = process]_vars

C15_Witness ==
    /\ Len(delivered) = 5
    /\ delivered[1].event = "thread.message.delta"
    /\ delivered[2].event = "thread.message.created"
    /\ delivered[3].event = "thread.message.completed"
    /\ delivered[4] = Sig("thread.message.delta", "a", <<>>)
    /\ delivered[5].event = "thread.run.completed"
    /\ contents = << <<>> >>
    /\ events = <<[name |-> "complete", messages |-> <<1>>]>>

\* The step handles a requires_action signal of type submit-tool-outputs
\* with the function tool calls cs.
SubmitOf(cs) ==
    /\ CaseRequiresAction
    /\ delivered' = Append(delivered,
                           Sig("thread.run.requires_action", "submit_tool_outputs", cs))

\* C16: for a requires_action signal whose function tool calls succeed or
\* throw, exactly one batch is submitted, with one output per call in call
\* order, keyed by the call id: the result for a succeeding call, an error
\* payload for a throwing one; every skill is executed, no event is emitted
\* and the Run goes on reading the new stream.
C16_ThrowingSkillBecomesErrorOutput ==
    [][\A cs \in CallLists :
          (SubmitOf(cs) /\ Len(cs) > 0 /\ \A i \in 1..Len(cs) : cs[i] # "badjson")
            => /\ submitted' = Append(submitted,
                      [i \in 1..Len(cs) |->
                          [tool_call_id |-> i,
                           output |-> IF cs[i] = "throws" THEN "error" ELSE "result"]])
               /\ executed' = executed \o [i \in 1..Len(cs) |-> i]
               /\ events' = events
               /\ startPc' = "running"
               /\ Len(process') = Len(process) + 1
               /\ ~process'[Len(process')].fin]_vars

C16_Witness ==
    /\ Len(delivered) = 2
    /\ delivered[1] = Sig("thread.run.requires_action", "submit_tool_outputs",
                          <<"ok", "throws">>)
    /\ delivered[2].event = "thread.message.created"
    /\ submitted = << <<[tool_call_id |-> 1, output |-> "result"],
                        [tool_call_id |-> 2, output |-> "error"]>> >>
    /\ executed = <<1, 2>>
    /\ events = <<>>
    /\ runMessages = <<1>>

\* C17: for a requires_action signal with several function tool calls, a
\* call that fails (unparsable arguments or a throwing skill) aborts no sibling: every
\* call whose arguments parse is executed and one batch is submitted with
\* one output per call.
C17_FailingCallSparesSiblings ==
    [][\A cs \in CallLists :
          (SubmitOf(cs) /\ Len(cs) > 1)
            => /\ executed' = executed \o SelectSeq([i \in 1..Len(cs) |-> i],
                                                    LAMBDA i : cs[i] # "badjson")
               /\ Len(submitted') = Len(submitted) + 1
               /\ Len(submitted'[Len(submitted')]) = Len(cs)]_vars

\* The remote status a run-level signal carries ("": not a run-level signal).
StatusOf(s) ==
    CASE s.event = "thread.run.in_progress" -> "in_progress"
      [] s.event = "thread.run.requires_action" -> "requires_action"
      [] s.event = "thread.run.completed" -> "completed"
      [] s.event = "thread.run.failed" -> "failed"
      [] s.event = "thread.run.cancelled" -> "cancelled"
      [] OTHER -> ""

RunLevel == {i \in 1..Len(delivered) : StatusOf(delivered[i]) # ""}

\* C18: once the Run has consumed a run-level signal, Run.status is the
\* status carried by the last run-level signal it consumed.
C18_StatusMirrorsLastSignal ==
    RunLevel # {} =>
        runStatus = StatusOf(delivered[CHOOSE i \in RunLevel :
                                          \A j \in RunLevel : j <= i])

\* The last thing known of Run r from its stream is a failure (failed,
\* expired or error signal).
LastKnownFailed(r) == emitted[r] # <<>> /\ emitted[r][Len(emitted[r])] = "error"

\* C19: Driver.status is queued or idle without a Run in the slot, by the
\* queue being non-empty or empty; with a Run in the slot it is error if the
\* Run is known to have failed, else busy or paused by the driver being
\* available or not.
C19_StatusDerivation ==
    DriverStatus =
        IF run = NoRun
        THEN IF messageQueue # <<>> THEN "queued" ELSE "idle"
        ELSE IF LastKnownFailed(run) THEN "error"
        ELSE IF available THEN "busy"
        ELSE "paused"

C19_Witness ==
    /\ run # NoRun
    /\ ~available
    /\ messageQueue # <<>>
    /\ DriverStatus = "paused"
    /\ \E r \in Runs : LastKnownFailed(r)

Cancelled(es) == {i \in 1..Len(es) : es[i].name = "cancelled"}

Terminal == {"complete", "error", "cancelled"}

\* C21: a message that is complete, error or cancelled keeps that status
\* for ever, and a message in processing never goes back to queued.
C21_StatusMonotonic ==
    [][\A m \in Msgs :
          /\ status[m] \in Terminal => status'[m] = status[m]
          /\ status[m] = "processing" => status'[m] # "queued"]_vars

\* ------------------------------------------------------------- teardown
\* config.driver.keepAssistant and keepThread as the host configures them.
TeardownInit ==
    /\ keepAssistant \in BOOLEAN
    /\ keepThread \in BOOLEAN
    /\ FieldsInit
    /\ LoneInit
    /\ ThreadInit
    /\ PollInit

\* The driver under instruct() and remove() with the run-level signals of
\* its Runs.
NextTeardown ==
    \/ CreateAssistant
    \/ CreateThread
    \/ Tick
    \/ Instruct
    \/ \E c \in Runs : AddMessageReturn(c)
    \/ \E c \in Runs : RunsCreateReturn(c)
    \/ \E c \in Runs : RunCompleted(c)
    \/ \E c \in Runs : StreamEnd(c)
    \/ \E c \in Runs : RunCancelled(c)
    \/ \E c \in Runs : RunFailed(c)
    \/ \E c \in Runs : StreamDone(c)
    \/ Remove
    \/ \E i \in 1..MaxCleanup : CleanupStopped(i)
    \/ \E i \in 1..MaxCleanup : CleanupThreadDeleted(i)
    \/ \E i \in 1..MaxCleanup : CleanupAssistantDeleted(i)

SpecTeardown == TeardownInit /\ [][NextTeardown]_vars

\* #cleanup call k is over: it returned, or it rejected.
Over(k) == k.pc \in {"end", "threw"}

\* The requests of kind c that #cleanup call k has sent and seen return.
Attempts(k, c) == Cardinality({j \in 1..Len(k.calls) : k.calls[j].call = c})

\* C22: a #cleanup call that is over has tried to delete the thread exactly
\* when keepThread is false and the assistant exactly when keepAssistant is
\* false, once each, whatever the outcome of stopping the Run and of the
\* other deletion.  A deletion is required only of what the session had
\* when #cleanup was called.
C22_TeardownStepsIndependent ==
    \A i \in 1..Len(cleanup) :
        LET k == cleanup[i]
        IN  Over(k) =>
              /\ keepThread => Attempts(k, "thread") = 0
              /\ keepAssistant => Attempts(k, "assistant") = 0
              /\ (~keepThread /\ k.thread) => Attempts(k, "thread") = 1
              /\ (~keepAssistant /\ k.assistant) => Attempts(k, "assistant") = 1

\* ====================================================== Run.addMessage
MaxPosts == 2     \* Run.addMessage calls
MaxContent == 2   \* characters in the content of a host message

\* Strings are sequences of characters.
User == <<"u", "s", "e", "r">>
Sources == {User, <<"b", "o", "t">>}
Targets == {<<"d", "e", "v">>}
Contents == UNION {[1..n -> Chars] : n \in 0..MaxContent}

\* The host messages passed to addMessage: timestamp is a Date (its time
\* value in milliseconds), type an object whose toString() gives its name.
HostMessages ==
    [source : Sources, target : Targets, id : {1, 2},
     timestamp : {[time |-> 1000], [time |-> 2500]},
     type : {[name |-> "string"]}, content : Contents]

GetTime(date) == date.time
ToString(type) == type.name

\* The addMessage of the polling revision, which sends the content as it
\* is: C23 does not hold of it.
AddMessage_NoPrefix(message) ==
    [role |-> "user",
     content |-> message.content,
     metadata |-> [source |-> message.source,
                   target |-> message.target,
                   id |-> message.id,
                   timestamp |-> GetTime(message.timestamp),
                   type |-> ToString(message.type)]]

\* Run.addMessage: the body it passes to threads.messages.create.
AddMessage(message) ==
    LET messagePrefix ==
            IF message.source # User
            THEN <<"F", "r", "o", "m", " ">> \o message.source \o <<":", " ">>
            ELSE <<>>
    IN  [role |-> "user",
         content |-> messagePrefix \o message.content,
         metadata |-> [source |-> message.source,
                       target |-> message.target,
                       id |-> message.id,
                       timestamp |-> GetTime(message.timestamp),
                       type |-> ToString(message.type)]]

\* A call of Run.addMessage(message) up to its await: the request is sent,
\* whether it then resolves or rejects.
LoneAddMessage ==
    /\ addCalls < MaxPosts
    /\ addCalls' = addCalls + 1
    /\ \E message \in HostMessages :
          requests' = Append(requests, [message |-> message,
                                        body |-> AddMessage(message)])
    /\ UNCHANGED loneVars
    /\ UNCHANGED driverVars
    /\ UNCHANGED pollVars

NextThread == LoneAddMessage

SpecThread == Init /\ [][NextThread]_vars

\* C23: every addMessage call has sent exactly one request; its content is
\* the message's content after "From <source>: " when the source is not the
\* user and the content alone when it is; its metadata are the message's
\* source, target, id, timestamp in milliseconds and type name.
C23_AddMessageForwardsWithAttribution ==
    /\ Len(requests) = addCalls
    /\ \A i \in 1..Len(requests) :
          LET m == requests[i].message
              b == requests[i].body
              n == Len(b.content) - Len(m.content)
          IN  /\ n >= 0
              /\ SubSeq(b.content, n + 1, Len(b.content)) = m.content
              /\ SubSeq(b.content, 1, n) =
                    (IF m.source = User
                     THEN <<>>
                     ELSE <<"F", "r", "o", "m", " ">> \o m.source \o <<":", " ">>)
              /\ b.metadata = [source |-> m.source, target |-> m.target,
                               id |-> m.id, timestamp |-> m.timestamp.time,
                               type |-> m.type.name]

C23_Witness ==
    /\ addCalls = 2
    /\ requests[1].message.source = User
    /\ requests[1].body.content = <<"a", "b">>
    /\ requests[2].message.source # User
    /\ requests[2].message.content = <<"b">>
    /\ requests[2].body.content = <<"F", "r", "o", "m", " ", "b", "o", "t", ":", " ", "b">>

\* C24: while the Run in the slot has emitted no terminal event, the slot
\* keeps it and its messages in flight keep their status: only a step in
\* which that very Run emits error, complete or cancelled clears the slot.
C24_SlotClearedOnlyByItsRun ==
    [][(run # NoRun /\ emitted'[run] = <<>>)
          => /\ run' = run
             /\ \A m \in Range(messagesProcessing) : status'[m] = status[m]]_vars

\* ========================================== the Run of the polling revision
MaxStarts == 2   \* start() calls
MaxPolls == 3    \* #poll calls the timers make

ThreadIdle == UNCHANGED <<loneVars, driverVars, threadVars>>

\* start(): a Run that has its timer warns and returns; otherwise
\* `await runs.create(...)`.
PollStart ==
    /\ pollStarts < MaxStarts
    /\ pollStarts' = pollStarts + 1
    /\ creating' = IF interval # NoTimer THEN creating ELSE creating + 1
    /\ UNCHANGED <<timers, interval, pollers, pollEvents, pollStatus>>
    /\ ThreadIdle

\* runs.create resolves: `this.#interval = setInterval(() => this.#poll(), 5000)`;
\* or it rejects, and so does start().  Timer ids grow.
PollCreated ==
    /\ creating > 0
    /\ creating' = creating - 1
    /\ \E ok \in BOOLEAN :
          IF ok
          THEN /\ interval' = interval + 1
               /\ timers' = timers \cup {interval + 1}
          ELSE UNCHANGED <<timers, interval>>
    /\ UNCHANGED <<pollStarts, pollers, pollEvents, pollStatus>>
    /\ ThreadIdle

\* A timer fires: #poll() up to `await runs.retrieve(...)`.
PollTick ==
    /\ timers # {}
    /\ Len(pollers) < MaxPolls
    /\ pollers' = Append(pollers, "retrieve")
    /\ UNCHANGED <<pollStarts, creating, timers, interval, pollEvents, pollStatus>>
    /\ ThreadIdle

\* What runs.retrieve resolves with: the status of the job and, for a job
\* that failed or expired, whether it carries last_error.
JobResults ==
    [status : {"in_progress", "requires_action", "cancelled", "completed"},
     last_error : {FALSE}]
        \cup [status : {"failed", "expired"}, last_error : BOOLEAN]

\* An exception caught by #poll, as the value passed to #onError.
Thrown == [status |-> "Error", last_error |-> FALSE]

ClearInterval == timers' = timers \ {interval}

PollEmit(name, message) ==
    pollEvents' = Append(pollEvents, [name |-> name, message |-> message])

\* #onError(response) of the polling revision.  An Error gives its message.
\* A job result without last_error reads response.last_error.message: the
\* TypeError is caught by #poll, which calls #onError again with it.  A job
\* result with last_error is emitted whole.
PollOnError(response) ==
    /\ ClearInterval
    /\ IF response.status = "Error"
       THEN PollEmit("error", "Error.message")
       ELSE IF ~response.last_error
       THEN PollEmit("error", "Error.message")
       ELSE PollEmit("error", "response")

PollAwaits(i, pc) == i \in 1..Len(pollers) /\ pollers[i] = pc

PollGoto(i, pc) == pollers' = [pollers EXCEPT ![i] = pc]

\* #poll call i from `this.#status = runResult.status` on, up to its next
\* await.
PollSwitch(i, runResult) ==
    /\ pollStatus' = runResult.status
    /\ CASE runResult.status = "requires_action" ->
              /\ \E empty \in BOOLEAN :
                    PollGoto(i, IF empty THEN "done" ELSE "action")
              /\ UNCHANGED <<timers, pollEvents>>
         [] runResult.status = "cancelled" ->
              /\ ClearInterval
              /\ PollEmit("cancelled", "")
              /\ PollGoto(i, "done")
         [] runResult.status \in {"failed", "expired"} ->
              /\ PollOnError(runResult)
              /\ PollGoto(i, "done")
         [] runResult.status = "completed" ->
              /\ ClearInterval
              /\ PollGoto(i, "messages")
              /\ UNCHANGED pollEvents
         [] OTHER ->
              /\ PollGoto(i, "done")
              /\ UNCHANGED <<timers, pollEvents>>

\* `await runs.retrieve(...)` returns in #poll call i, or it throws.
PollRetrieved(i) ==
    /\ PollAwaits(i, "retrieve")
    /\ \/ /\ PollOnError(Thrown)
          /\ PollGoto(i, "done")
          /\ UNCHANGED pollStatus
       \/ \E runResult \in JobResults : PollSwitch(i, runResult)
    /\ UNCHANGED <<pollStarts, creating, interval>>
    /\ ThreadIdle

\* #onActionRequired: the skills have run and the outputs are submitted, or
\* a skill (or JSON.parse) threw and #poll catches it.
PollActionDone(i) ==
    /\ PollAwaits(i, "action")
    /\ PollGoto(i, "done")
    /\ \E ok \in BOOLEAN :
          IF ok THEN UNCHANGED <<timers, pollEvents>> ELSE PollOnError(Thrown)
    /\ UNCHANGED <<pollStarts, creating, interval, pollStatus>>
    /\ ThreadIdle

\* #onComplete after `await this.#getMessagesFromLastRun()`: emit complete;
\* or the listing threw and #poll catches it.
PollMessagesListed(i) ==
    /\ PollAwaits(i, "messages")
    /\ PollGoto(i, "done")
    /\ \E ok \in BOOLEAN :
          IF ok
          THEN PollEmit("complete", "") /\ UNCHANGED timers
          ELSE PollOnError(Thrown)
    /\ UNCHANGED <<pollStarts, creating, interval, pollStatus>>
    /\ ThreadIdle

NextPoll ==
    \/ PollStart
    \/ PollCreated
    \/ PollTick
    \/ \E i \in 1..MaxPolls : PollRetrieved(i)
    \/ \E i \in 1..MaxPolls : PollActionDone(i)
    \/ \E i \in 1..MaxPolls : PollMessagesListed(i)

SpecPoll == Init /\ [][NextPoll]_vars

\* The #poll calls that are suspended at an await.
PollsInFlight == {i \in 1..Len(pollers) : pollers[i] # "done"}

\* C25: a Run has at most one lifecycle-consumption loop at a time: in the
\* polling Run at most one #poll call is in flight, however long a poll or
\* a tool-call round trip lasts and however often start() is called.
C25_OneConsumptionLoop == Cardinality(PollsInFlight) <= 1

\* #poll call i learns that the job failed or expired, with a failure reason.
JobFailsWithReason(i) ==
    /\ PollRetrieved(i)
    /\ \E runResult \in JobResults :
          /\ runResult.status \in {"failed", "expired"}
          /\ runResult.last_error
          /\ PollSwitch(i, runResult)

\* C26: when the job reports failed or expired with a failure reason, the
\* Run emits error with that reason as its message and stops its timer.
C26_ErrorCarriesRemoteReason ==
    [][\A i \in 1..MaxPolls :
          JobFailsWithReason(i)
            => /\ pollEvents' = Append(pollEvents, [name |-> "error",
                                                    message |-> "last_error.message"])
               /\ interval \notin timers']_vars

\* The output messages created by the first i signals of the stream h.
CreatedBy(h, i) ==
    Cardinality({j \in 1..i : h[j].event = "thread.message.created"})

\* The output messages that have received their message-completed signal:
\* a signal closes the message created last before it.
Assembled(h) ==
    {CreatedBy(h, i) : i \in {j \in 1..Len(h) : h[j].event = "thread.message.completed"}}
        \ {0}

\* The remote service keeps to its protocol on the stream h: it opens a
\* message, and reports the job completed, only when the message before has
\* been reported completed.
Orderly(h) ==
    \A i \in 1..Len(h) :
        h[i].event \in {"thread.message.created", "thread.run.completed"}
            => \/ CreatedBy(h, i - 1) = 0
               \/ CreatedBy(h, i - 1) \in Assembled(SubSeq(h, 1, i))

\* The step emits complete.
EmitsComplete ==
    /\ Len(events') = Len(events) + 1
    /\ events'[Len(events')].name = "complete"

\* C27: on a stream of a remote service that keeps to its protocol, a
\* complete event is emitted only in a step that consumes the
\* run-completion signal or the end of the stream; every message it carries
\* has received its message-completed signal, and the messages are in the
\* order in which they were reported completed.
C27_CompleteCarriesAssembledMessages ==
    [][(EmitsComplete /\ Orderly(delivered'))
          => LET carried == events'[Len(events')].messages
             IN  /\ delivered'[Len(delivered')].event \in {"thread.run.completed", "end"}
                 /\ Range(carried) \subseteq Assembled(delivered)
                 /\ \A i, j \in 1..Len(carried) : i < j => carried[i] < carried[j]]_vars

\* C28: from a pause() call to the next resume() call the driver creates no
\* Run, whatever happens in between: session creation completing, the
\* nextTick callback, a Run terminating, instruct() calls.
C28_NoRunWhilePaused ==
    [][(paused /\ paused') => Len(inst') = Len(inst)]_vars

\* C29: when the Run in the slot emits complete or error while the driver
\* is paused and the queue is not empty, no Run is created and the queue is
\* left as it was.
C29_PausedTerminationKeepsQueue ==
    [][((SlotRunCompletes \/ SlotRunFails) /\ ~available /\ messageQueue # <<>>)
          => /\ Len(inst') = Len(inst)
             /\ run' = NoRun
             /\ messageQueue' = messageQueue]_vars
====
